---- MODULE Spec2Model ----
(***************************************************************************)
(* The Authority of the real-time canvas (src/server/src/server.ts): the   *)
(* room registry, the per-connection context and the handler of every      *)
(* inbound message type, with the events each handling turn sends; and the *)
(* ClientReplica (src/client/src/main.ts): the local mirror, the state of  *)
(* the gesture in progress and every event handler of the page.            *)
(*                                                                         *)
(* A connection is either driven by the environment (its messages are      *)
(* drawn from the input sets) or by a modelled replica: then the Authority *)
(* handles the head of the replica's outbound channel and the events sent  *)
(* to it wait in its inbound channel (a WebSocket is FIFO both ways).      *)
(*                                                                         *)
(* A Point {x, y, t} is an opaque value here (a natural number): the       *)
(* server never reads a point's fields, it only slices and appends point   *)
(* sequences.  A stroke's optional field `removed` is modelled by its      *)
(* truthiness (FALSE for absent or false): the code only ever tests        *)
(* `!st.removed` / `st.removed`.                                           *)
(***************************************************************************)
EXTENDS Integers, Sequences, FiniteSets, TLC

\* ---------------------------------------------------------------- bounds
\* Spec (every message type, two connections, two rooms): the stroke ids
\* begin_stroke may allocate, and the add_points messages that may be handled
\* for existing strokes
MaxStrokes == 1
MaxBatches == 1
\* SpecStrokes (one author's begin / add / end traffic)
MaxAuthorStrokes == 2
MaxAuthorBatches == 2
\* SpecUndo (one room's undo / redo / clear history, two user ids)
MaxUndoStrokes == 4
\* SpecRedo (strokes with points, tombstoned and restored, two user ids)
MaxRedoStrokes == 2
MaxRedoBatches == 2
\* SpecReplica (one drawing page): the gestures it starts, the readings of
\* its clock, and the messages it may have in flight when input arrives
MaxGestures == 2
MaxClock == 4
MaxInFlight == 2
\* SpecMirror (a page that only listens): the strokes and point batches of
\* the other connection, and the events that may wait for the page when the
\* other connection acts
MaxMirrorStrokes == 2
MaxMirrorBatches == 1
MaxWaiting == 1
\* SpecCursor (two pages moving their pointers): the messages and events on
\* their way when a pointer may still move
MaxCursors == 2

\* ------------------------------------------------------ program constants
\* msg.points.slice(0, 200)
BatchCap == 200

\* ------------------------------------------------------------ input sets
Conns == {1, 2}
NoConn == 0
RoomNames == {"default", "team1"}
\* the userId a client may put in join_room ("" is the falsy one)
Users == {"u1"}
Pen == [color |-> "#000000", size |-> 4, tool |-> "pen"]
Eraser == [color |-> "#ffffff", size |-> 9, tool |-> "eraser"]
Metas == {Pen, Eraser}
Positions == {[x |-> 5, y |-> 5]}
\* point batches: short ones, and one longer than the cap
Run(n, base) == [i \in 1..n |-> base + i]
ShortBatches == {Run(2, 1000)}
Batches == {Run(1, 0), Run(2, 1000), Run(250, 2000)}
NoStroke == 0

\* crypto.randomUUID() at connection time: a user id unlike the named ones
ConnUUID(c) == "conn-" \o ToString(c)

\* ----------------------------------------------------------------- state
VARIABLES
  rooms,       \* rooms: room name -> [strokes, userStacks], created lazily
  clients,     \* wss.clients: connection -> [readyState, room, userId]
  nextId,      \* the next stroke id crypto.randomUUID() will return
  sent,        \* per connection, the events the Authority sent to it in the last turn
  lastOp,      \* history: the message (or the replica's event) handled in the last turn
  hist,        \* history: the trailing run of undo / redo turns
  received,    \* history: per stroke id, the add_points payloads addressed to it
  cleared,     \* history: rooms cleared with no begin_stroke since
  replicas,    \* the modelled pages: connection -> the state of main.ts
  toServer,    \* per connection, the replica's messages the Authority has yet to handle
  toClient,    \* per connection, the events its replica has yet to handle
  log          \* history: per replica, its gestures and the add_points it sent

vars == <<rooms, clients, nextId, sent, lastOp, hist, received, cleared,
          replicas, toServer, toClient, log>>

\* ------------------------------------------------------------- helpers
Min(a, b) == IF a < b THEN a ELSE b

NoStacks == [u \in {} |-> <<>>]
EmptyRoom == [strokes |-> <<>>, userStacks |-> NoStacks]

\* rooms after getRoom(room): the entry is created when missing
GetRoom(rs, room) ==
  IF room \in DOMAIN rs THEN rs
  ELSE [r \in DOMAIN rs \cup {room} |-> IF r = room THEN EmptyRoom ELSE rs[r]]

\* what getRoom(room) would return, without creating it
RoomView(rs, room) == IF room \in DOMAIN rs THEN rs[room] ELSE EmptyRoom

SetRoom(rs, room, state) ==
  [r \in DOMAIN rs \cup {room} |-> IF r = room THEN state ELSE rs[r]]

NoneSent == [c \in Conns |-> <<>>]

\* mutant of Broadcast: the `client !== except` test is missing
BroadcastNoExcept(cl, room, data, except) ==
  [c \in Conns |->
     IF c \in DOMAIN cl /\ cl[c].readyState = "OPEN" /\ cl[c].room = room
     THEN <<data>> ELSE <<>>]

\* mutant of Broadcast: the `client.room === room` test is missing
BroadcastAllRooms(cl, room, data, except) ==
  [c \in Conns |->
     IF c \in DOMAIN cl /\ cl[c].readyState = "OPEN" /\ c # except
     THEN <<data>> ELSE <<>>]

\* broadcast(room, data, except): one copy to every open client of the room
Broadcast(cl, room, data, except) ==
  [c \in Conns |->
     IF /\ c \in DOMAIN cl
        /\ cl[c].readyState = "OPEN"
        /\ cl[c].room = room
        /\ c # except
     THEN <<data>> ELSE <<>>]

\* ws.send(data) on the handling connection, after what was already sent
SendTo(out, c, data) == [out EXCEPT ![c] = Append(@, data)]

\* the channels across a turn of the Authority that handled a message of
\* connection c: a replica's message is taken off its outbound channel, and
\* what the turn sent to a replica's connection joins its inbound channel
Transport(c) ==
  /\ toServer' = IF c \in DOMAIN replicas THEN [toServer EXCEPT ![c] = Tail(@)]
                 ELSE toServer
  /\ toClient' = [d \in Conns |->
                    IF d \in DOMAIN replicas THEN toClient[d] \o sent'[d] ELSE toClient[d]]
  /\ UNCHANGED <<replicas, log>>

\* mutant of FindLive: the `!st.removed` test is missing
FindAny(strokes, id) ==
  LET hits == {i \in 1..Len(strokes) : strokes[i].id = id}
  IN IF hits = {} THEN 0 ELSE CHOOSE i \in hits : \A j \in hits : i <= j

\* strokes.find(st => st.id === id && !st.removed): its index, 0 when none
FindLive(strokes, id) ==
  LET hits == {i \in 1..Len(strokes) : strokes[i].id = id /\ ~strokes[i].removed}
  IN IF hits = {} THEN 0 ELSE CHOOSE i \in hits : \A j \in hits : i <= j

\* mutant of Truncate: the slice keeps one point too many (slice(0, 201))
TruncateOffByOne(points) == SubSeq(points, 1, Min(Len(points), BatchCap + 1))

\* msg.points.slice(0, 200)
Truncate(points) == SubSeq(points, 1, Min(Len(points), BatchCap))

\* (userStacks[userId] ||= []).push(id)
PushStack(stacks, userId, id) ==
  [u \in DOMAIN stacks \cup {userId} |->
     IF u = userId
     THEN Append(IF u \in DOMAIN stacks THEN stacks[u] ELSE <<>>, id)
     ELSE stacks[u]]

NoOp == [type |-> "none", conn |-> NoConn, room |-> "", userId |-> "",
         strokeId |-> NoStroke, points |-> <<>>, target |-> NoStroke]

Op(type, c, room, userId, strokeId, points, target) ==
  [type |-> type, conn |-> c, room |-> room, userId |-> userId,
   strokeId |-> strokeId, points |-> points, target |-> target]

\* ------------------------------------------------------------------ Init
Init ==
  /\ rooms = [r \in {} |-> EmptyRoom]
  /\ clients = [c \in {} |-> 0]
  /\ nextId = 1
  /\ sent = NoneSent
  /\ lastOp = NoOp
  /\ hist = <<>>
  /\ received = [i \in {} |-> <<>>]
  /\ cleared = {}
  /\ replicas = [c \in {} |-> 0]
  /\ toServer = NoneSent
  /\ toClient = NoneSent
  /\ log = [c \in {} |-> 0]

\* --------------------------------------------------------------- actions
IsOpen(c) == c \in DOMAIN clients /\ clients[c].readyState = "OPEN"

\* wss.on("connection"): room "default" and a random user id
Connection(c) ==
  /\ c \notin DOMAIN clients
  /\ clients' = [d \in DOMAIN clients \cup {c} |->
                   IF d = c
                   THEN [readyState |-> "OPEN", room |-> "default", userId |-> ConnUUID(c)]
                   ELSE clients[d]]
  /\ sent' = NoneSent
  /\ lastOp' = Op("connection", c, "default", ConnUUID(c), NoStroke, <<>>, NoStroke)
  /\ hist' = <<>>
  /\ UNCHANGED <<rooms, nextId, received, cleared>>
  /\ UNCHANGED <<replicas, toServer, toClient, log>>

\* the transport closes a connection: it is no longer OPEN at fan-out time
Close(c) ==
  /\ IsOpen(c)
  /\ clients' = [clients EXCEPT ![c].readyState = "CLOSED"]
  /\ sent' = NoneSent
  /\ lastOp' = Op("close", c, clients[c].room, clients[c].userId, NoStroke, <<>>, NoStroke)
  /\ hist' = <<>>
  /\ UNCHANGED <<rooms, nextId, received, cleared>>
  /\ UNCHANGED <<replicas, toServer, toClient, log>>

\* JSON.parse throws: the message is dropped, nothing else happens
ParseFailure(c) ==
  /\ IsOpen(c)
  /\ sent' = NoneSent
  /\ lastOp' = Op("malformed", c, clients[c].room, "", NoStroke, <<>>, NoStroke)
  /\ hist' = <<>>
  /\ UNCHANGED <<rooms, clients, nextId, received, cleared>>
  /\ UNCHANGED <<replicas, toServer, toClient, log>>

\* mutant of RoomStateMsg: the snapshot leaves the tombstoned strokes out
RoomStateMsgLiveOnly(state) ==
  [type |-> "room_state",
   state |-> [state EXCEPT !.strokes = SelectSeq(@, LAMBDA st : ~st.removed)]]

\* the reply to join_room: JSON.stringify({ type: "room_state", state })
RoomStateMsg(state) == [type |-> "room_state", state |-> state]

\* join_room{room, userId}
JoinRoom(c, room, userId) ==
  /\ IsOpen(c)
  /\ LET rs == GetRoom(rooms, room)
     IN /\ rooms' = rs
        /\ clients' = [clients EXCEPT ![c].room = room,
                                      ![c].userId = IF userId # "" THEN userId ELSE @]
        /\ sent' = SendTo(NoneSent, c, RoomStateMsg(rs[room]))
        /\ lastOp' = Op("join_room", c, room, userId, NoStroke, <<>>, NoStroke)
  /\ hist' = <<>>
  /\ UNCHANGED <<nextId, received, cleared>>
  /\ Transport(c)

\* the stroke begin_stroke creates
NewStroke(id, userId, meta) ==
  [id |-> id, userId |-> userId, color |-> meta.color, size |-> meta.size,
   tool |-> meta.tool, points |-> <<>>, removed |-> FALSE]

\* the begin_stroke payload: { ...s, points: [] }
BeginPayload(s) == [type |-> "begin_stroke", stroke |-> [s EXCEPT !.points = <<>>]]

\* begin_stroke{stroke: {color, size, tool}}
BeginStroke(c, meta) ==
  /\ IsOpen(c)
  /\ LET room == clients[c].room
         rs == GetRoom(rooms, room)
         state == rs[room]
         s == NewStroke(nextId, clients[c].userId, meta)
         payload == BeginPayload(s)
     IN /\ rooms' = SetRoom(rs, room,
                       [strokes |-> Append(state.strokes, s),
                        userStacks |-> PushStack(state.userStacks, s.userId, s.id)])
        /\ sent' = SendTo(Broadcast(clients, room, payload, NoConn), c, payload)
        /\ lastOp' = Op("begin_stroke", c, room, s.userId, s.id, <<>>, s.id)
        /\ received' = [i \in DOMAIN received \cup {s.id} |->
                          IF i = s.id THEN <<>> ELSE received[i]]
        /\ cleared' = cleared \ {room}
  /\ nextId' = nextId + 1
  /\ hist' = <<>>
  /\ UNCHANGED clients
  /\ Transport(c)

\* mutant of WithPoints: the batch is put in front (unshift for push)
WithPointsInFront(strokes, i, pts) == [strokes EXCEPT ![i].points = pts \o @]

\* strokes[i] with its points extended
WithPoints(strokes, i, pts) == [strokes EXCEPT ![i].points = @ \o pts]

\* mutant of WithRemoved: setting the flag also empties the stroke's points
WithRemovedAndEmptied(strokes, i, flag) ==
  [strokes EXCEPT ![i].removed = flag, ![i].points = <<>>]

\* strokes[i] with its tombstone set or reset: s.removed = flag
WithRemoved(strokes, i, flag) == [strokes EXCEPT ![i].removed = flag]

\* whether the room holds a stroke with this id, tombstoned or not
HasStroke(state, id) == \E i \in 1..Len(state.strokes) : state.strokes[i].id = id

AddPointsPayload(id, pts) == [type |-> "add_points", strokeId |-> id, points |-> pts]

\* add_points{strokeId, points}
AddPoints(c, strokeId, points) ==
  /\ IsOpen(c)
  /\ LET room == clients[c].room
         rs == GetRoom(rooms, room)
         state == rs[room]
         i == FindLive(state.strokes, strokeId)
         pts == Truncate(points)
     IN /\ IF i = 0
           THEN /\ rooms' = rs
                /\ sent' = NoneSent
           ELSE /\ rooms' = SetRoom(rs, room,
                               [state EXCEPT !.strokes = WithPoints(@, i, pts)])
                /\ sent' = Broadcast(clients, room,
                                     AddPointsPayload(state.strokes[i].id, pts), c)
        /\ received' = IF HasStroke(state, strokeId)
                       THEN [received EXCEPT ![strokeId] = Append(@, points)]
                       ELSE received
        /\ lastOp' = Op("add_points", c, room, "", strokeId, points,
                        IF i = 0 THEN NoStroke ELSE strokeId)
  /\ hist' = <<>>
  /\ UNCHANGED <<clients, nextId, cleared>>
  /\ Transport(c)

\* end_stroke{strokeId}: relayed, no state change
EndStroke(c, strokeId) ==
  /\ IsOpen(c)
  /\ LET room == clients[c].room
     IN /\ rooms' = GetRoom(rooms, room)
        /\ sent' = Broadcast(clients, room,
                             [type |-> "end_stroke", strokeId |-> strokeId], c)
        /\ lastOp' = Op("end_stroke", c, room, "", strokeId, <<>>, NoStroke)
  /\ hist' = <<>>
  /\ UNCHANGED <<clients, nextId, received, cleared>>
  /\ Transport(c)

\* mutant of UndoScan: the loop reads the top of the stack without popping it
UndoScanPeek(stack, strokes) ==
  IF stack # <<>> /\ FindLive(strokes, stack[Len(stack)]) # 0
  THEN [stack |-> stack, id |-> stack[Len(stack)]]
  ELSE [stack |-> <<>>, id |-> NoStroke]

\* the undo loop: pop until a live stroke is found or the stack is empty
RECURSIVE UndoScan(_, _)
UndoScan(stack, strokes) ==
  IF stack = <<>> THEN [stack |-> <<>>, id |-> NoStroke]
  ELSE LET id == stack[Len(stack)]
           rest == SubSeq(stack, 1, Len(stack) - 1)
       IN IF FindLive(strokes, id) # 0
          THEN [stack |-> rest, id |-> id]
          ELSE UndoScan(rest, strokes)

\* state.userStacks[msg.userId] || []
StackOf(stacks, userId) == IF userId \in DOMAIN stacks THEN stacks[userId] ELSE <<>>

\* mutant of StacksAfterUndo: the fallback array is stored (`||=` for `||`)
StacksAfterUndoStored(stacks, userId, stack) ==
  [u \in DOMAIN stacks \cup {userId} |-> IF u = userId THEN stack ELSE stacks[u]]

\* the user stacks after the undo loop popped userId's stack down to `stack`
\* (the `|| []` fallback array is not stored in userStacks)
StacksAfterUndo(stacks, userId, stack) ==
  IF userId \in DOMAIN stacks THEN [stacks EXCEPT ![userId] = stack] ELSE stacks

\* what hist remembers of an undo / redo turn: the message, the stroke it
\* tombstoned or restored, and the room's state before the turn
HistEntry(type, room, userId, target, pre) ==
  [type |-> type, room |-> room, userId |-> userId, target |-> target, pre |-> pre]

\* hist after an undo / redo turn in `room`: a run starts with an undo that
\* tombstoned a stroke and goes on with the undo / redo turns that follow it
\* in the same room (the last three are kept); an undo that removed nothing
\* ends the run
Remember(h, e) ==
  LET run == IF h # <<>> /\ h[Len(h)].room = e.room THEN h ELSE <<>>
      all == Append(run, e)
  IN IF e.type = "undo" /\ e.target = NoStroke THEN <<>>
     ELSE IF e.type = "redo" /\ run = <<>> THEN <<>>
     ELSE IF Len(all) > 3 THEN SubSeq(all, Len(all) - 2, Len(all))
     ELSE all

\* undo{userId}
Undo(c, userId) ==
  /\ IsOpen(c)
  /\ LET room == clients[c].room
         rs == GetRoom(rooms, room)
         state == rs[room]
         r == UndoScan(StackOf(state.userStacks, userId), state.strokes)
         i == FindLive(state.strokes, r.id)
     IN /\ rooms' = SetRoom(rs, room,
                      [strokes |-> IF r.id = NoStroke THEN state.strokes
                                   ELSE WithRemoved(state.strokes, i, TRUE),
                       userStacks |-> StacksAfterUndo(state.userStacks, userId, r.stack)])
        /\ sent' = IF r.id = NoStroke THEN NoneSent
                   ELSE Broadcast(clients, room,
                                  [type |-> "remove_stroke", strokeId |-> r.id], NoConn)
        /\ lastOp' = Op("undo", c, room, userId, NoStroke, <<>>, r.id)
        /\ hist' = Remember(hist, HistEntry("undo", room, userId, r.id, state))
  /\ UNCHANGED <<clients, nextId, received, cleared>>
  /\ Transport(c)

\* mutant of RedoIndex: the scan runs in creation order (no reverse())
RedoIndexFirst(strokes, userId) ==
  LET hits == {i \in 1..Len(strokes) : strokes[i].userId = userId /\ strokes[i].removed}
  IN IF hits = {} THEN 0 ELSE CHOOSE i \in hits : \A j \in hits : i <= j

\* [...strokes].reverse().findIndex(st => st.userId === userId && st.removed),
\* as an index into strokes (0 when findIndex gives -1)
RedoIndex(strokes, userId) ==
  LET hits == {i \in 1..Len(strokes) : strokes[i].userId = userId /\ strokes[i].removed}
  IN IF hits = {} THEN 0 ELSE CHOOSE i \in hits : \A j \in hits : j <= i

\* mutant of RestorePayload: the stroke is sent as begin_stroke sends it,
\* without its points
RestorePayloadNoPoints(s) == [type |-> "restore_stroke", stroke |-> [s EXCEPT !.points = <<>>]]

\* the restore_stroke payload: the full stroke, points included
RestorePayload(s) == [type |-> "restore_stroke", stroke |-> s]

\* redo{userId}
Redo(c, userId) ==
  /\ IsOpen(c)
  /\ LET room == clients[c].room
         rs == GetRoom(rooms, room)
         state == rs[room]
         i == RedoIndex(state.strokes, userId)
     IN IF i = 0
        THEN /\ rooms' = rs
             /\ sent' = NoneSent
             /\ lastOp' = Op("redo", c, room, userId, NoStroke, <<>>, NoStroke)
             /\ hist' = Remember(hist, HistEntry("redo", room, userId, NoStroke, state))
        ELSE LET strokes2 == WithRemoved(state.strokes, i, FALSE)
                 s == strokes2[i]
             IN /\ rooms' = SetRoom(rs, room,
                              [strokes |-> strokes2,
                               userStacks |-> PushStack(state.userStacks, userId, s.id)])
                /\ sent' = Broadcast(clients, room, RestorePayload(s), NoConn)
                /\ lastOp' = Op("redo", c, room, userId, NoStroke, <<>>, s.id)
                /\ hist' = Remember(hist, HistEntry("redo", room, userId, s.id, state))
  /\ UNCHANGED <<clients, nextId, received, cleared>>
  /\ Transport(c)

\* mutant of ClearedRoom: the user stacks are kept
ClearedRoomKeepsStacks(state) == [state EXCEPT !.strokes = <<>>]

\* state.strokes = []; state.userStacks = {}
ClearedRoom(state) == EmptyRoom

\* clear{}
Clear(c) ==
  /\ IsOpen(c)
  /\ LET room == clients[c].room
         rs == GetRoom(rooms, room)
     IN /\ rooms' = SetRoom(rs, room, ClearedRoom(rs[room]))
        /\ sent' = Broadcast(clients, room, [type |-> "clear"], NoConn)
        /\ lastOp' = Op("clear", c, room, "", NoStroke, <<>>, NoStroke)
        /\ cleared' = cleared \cup {room}
  /\ hist' = <<>>
  /\ UNCHANGED <<clients, nextId, received>>
  /\ Transport(c)

\* cursor{userId, x, y}: relayed, nothing retained
Cursor(c, userId, pos) ==
  /\ IsOpen(c)
  /\ LET room == clients[c].room
     IN /\ rooms' = GetRoom(rooms, room)
        /\ sent' = Broadcast(clients, room,
                             [type |-> "cursor", userId |-> userId, x |-> pos.x, y |-> pos.y], c)
        /\ lastOp' = Op("cursor", c, room, userId, NoStroke, <<>>, NoStroke)
  /\ hist' = <<>>
  /\ UNCHANGED <<clients, nextId, received, cleared>>
  /\ Transport(c)

\* ------------------------------------------------------------ the replica
\* One page of src/client/src/main.ts per modelled connection.  A replica is
\* modelled from the moment its socket opens.  A local Point is the value of
\* its timestamp field t; the handlers read a point's fields only to draw,
\* which matters in one place: pointermove reads `last.x` of the last point
\* of the bound mirror entry, and throws when that entry has no point.

\* crypto.randomUUID() at page load: the replica's own user id
ClientUUID(c) == "user-" \o ToString(c)

\* localTempStroke = null
NoTemp == [id |-> "none"]

\* the page's state when its script has run
NewReplica(c, room) ==
  [userId |-> ClientUUID(c), room |-> room, strokes |-> <<>>,
   cursors |-> [u \in {} |-> 0], drawing |-> FALSE, currentId |-> NoStroke,
   pendingPoints |-> <<>>, localTempStroke |-> NoTemp, now |-> 0]

NoGestures == [gestures |-> <<>>, sentPoints |-> <<>>]
NewGesture == [phase |-> "Pending", bound |-> NoStroke, captured |-> <<>>]

\* ws.send(JSON.stringify(msg)) on the replica's socket
WsSend(ch, c, msg) == [ch EXCEPT ![c] = Append(@, msg)]

\* whether the next message of a channel has this type
Awaits(ch, c, type) == ch[c] # <<>> /\ Head(ch[c]).type = type

\* what a turn of a replica leaves of the Authority: nothing changes there
ReplicaTurn(type, c) ==
  /\ sent' = NoneSent
  /\ lastOp' = Op(type, c, replicas'[c].room, replicas'[c].userId, NoStroke, <<>>, NoStroke)
  /\ UNCHANGED <<rooms, clients, nextId, hist, received, cleared>>

\* history: a replica's log with the phase and bound id of its latest
\* gesture set and `more` added to the points the gesture buffered
LogGesture(lg, phase, bound, more) ==
  IF lg.gestures = <<>> THEN lg
  ELSE [lg EXCEPT !.gestures[Len(lg.gestures)] =
          [phase |-> phase, bound |-> bound, captured |-> @.captured \o more]]
LastGesture(lg) == lg.gestures[Len(lg.gestures)]
LogCaptured(lg, p) ==
  LogGesture(lg, LastGesture(lg).phase, LastGesture(lg).bound, <<p>>)
LogSent(lg, pts) == [lg EXCEPT !.sentPoints = @ \o pts]

\* ws "open": the page joins its room under its own user id
Open(c, room) ==
  /\ IsOpen(c)
  /\ c \notin DOMAIN replicas
  /\ replicas' = [d \in DOMAIN replicas \cup {c} |->
                    IF d = c THEN NewReplica(c, room) ELSE replicas[d]]
  /\ log' = [d \in DOMAIN log \cup {c} |-> IF d = c THEN NoGestures ELSE log[d]]
  /\ toServer' = WsSend(toServer, c,
                        [type |-> "join_room", room |-> room, userId |-> ClientUUID(c)])
  /\ ReplicaTurn("open", c)
  /\ UNCHANGED toClient

\* strokes.splice(0, strokes.length, ...msg.state.strokes)
OnRoomState(c) ==
  /\ c \in DOMAIN replicas
  /\ Awaits(toClient, c, "room_state")
  /\ replicas' = [replicas EXCEPT ![c].strokes = Head(toClient[c]).state.strokes]
  /\ toClient' = [toClient EXCEPT ![c] = Tail(@)]
  /\ ReplicaTurn("on_room_state", c)
  /\ UNCHANGED <<toServer, log>>

\* s.userId === userId && drawing && currentId === null
Binds(r, s) == s.userId = r.userId /\ r.drawing /\ r.currentId = NoStroke

\* case "begin_stroke": the stroke joins the mirror with no points; when it
\* binds the gesture in progress, the buffered points are replayed into it
\* and sent under its id
OnBeginStroke(c) ==
  /\ c \in DOMAIN replicas
  /\ Awaits(toClient, c, "begin_stroke")
  /\ LET r == replicas[c]
         s == [Head(toClient[c]).stroke EXCEPT !.points = <<>>]
         pushed == Append(r.strokes, s)
     IN IF ~Binds(r, s)
        THEN /\ replicas' = [replicas EXCEPT ![c].strokes = pushed]
             /\ UNCHANGED <<toServer, log>>
        ELSE /\ replicas' =
                  [replicas EXCEPT
                     ![c].strokes = [pushed EXCEPT ![Len(pushed)].points = r.pendingPoints],
                     ![c].currentId = s.id,
                     ![c].pendingPoints = <<>>,
                     ![c].localTempStroke = NoTemp]
             /\ toServer' =
                  IF r.pendingPoints # <<>>
                  THEN WsSend(toServer, c,
                              [type |-> "add_points", room |-> r.room,
                               strokeId |-> s.id, points |-> r.pendingPoints])
                  ELSE toServer
             /\ log' = [log EXCEPT ![c] =
                          LogSent(LogGesture(@, "Bound", s.id, <<>>), r.pendingPoints)]
  /\ toClient' = [toClient EXCEPT ![c] = Tail(@)]
  /\ ReplicaTurn("on_begin_stroke", c)

\* strokes.find(st => st.id === id && !st.removed) on the mirror: the index
\* of the first such entry, 0 when none
MirrorFindLive(strokes, id) ==
  LET hits == {i \in 1..Len(strokes) : strokes[i].id = id /\ ~strokes[i].removed}
  IN IF hits = {} THEN 0 ELSE CHOOSE i \in hits : \A j \in hits : i <= j

\* strokes.find(st => st.id === id) / strokes.findIndex(...) on the mirror
MirrorFind(strokes, id) ==
  LET hits == {i \in 1..Len(strokes) : strokes[i].id = id}
  IN IF hits = {} THEN 0 ELSE CHOOSE i \in hits : \A j \in hits : i <= j

\* s.points.push(...pts) on the mirror entry at index i
MirrorPush(strokes, i, pts) == [strokes EXCEPT ![i].points = @ \o pts]

\* case "add_points"
OnAddPoints(c) ==
  /\ c \in DOMAIN replicas
  /\ Awaits(toClient, c, "add_points")
  /\ LET m == Head(toClient[c])
         i == MirrorFindLive(replicas[c].strokes, m.strokeId)
     IN replicas' = IF i = 0 THEN replicas
                    ELSE [replicas EXCEPT ![c].strokes = MirrorPush(@, i, m.points)]
  /\ toClient' = [toClient EXCEPT ![c] = Tail(@)]
  /\ ReplicaTurn("on_add_points", c)
  /\ UNCHANGED <<toServer, log>>

\* case "end_stroke": nothing to do
OnEndStroke(c) ==
  /\ c \in DOMAIN replicas
  /\ Awaits(toClient, c, "end_stroke")
  /\ toClient' = [toClient EXCEPT ![c] = Tail(@)]
  /\ UNCHANGED <<replicas, toServer, log>>
  /\ ReplicaTurn("on_end_stroke", c)

\* case "remove_stroke": the first entry with the id is tombstoned
MirrorRemove(strokes, id) ==
  LET i == MirrorFind(strokes, id)
  IN IF i = 0 THEN strokes ELSE [strokes EXCEPT ![i].removed = TRUE]

OnRemoveStroke(c) ==
  /\ c \in DOMAIN replicas
  /\ Awaits(toClient, c, "remove_stroke")
  /\ replicas' = [replicas EXCEPT
                    ![c].strokes = MirrorRemove(@, Head(toClient[c]).strokeId)]
  /\ toClient' = [toClient EXCEPT ![c] = Tail(@)]
  /\ ReplicaTurn("on_remove_stroke", c)
  /\ UNCHANGED <<toServer, log>>

\* mutant of MirrorRestore: the restored stroke is always pushed
MirrorRestorePushes(strokes, s) == Append(strokes, s)

\* case "restore_stroke": the first entry with the id is replaced by the
\* payload's stroke, which is pushed when the mirror holds no such entry
MirrorRestore(strokes, s) ==
  LET i == MirrorFind(strokes, s.id)
  IN IF i = 0 THEN Append(strokes, s) ELSE [strokes EXCEPT ![i] = s]

OnRestoreStroke(c) ==
  /\ c \in DOMAIN replicas
  /\ Awaits(toClient, c, "restore_stroke")
  /\ replicas' = [replicas EXCEPT
                    ![c].strokes = MirrorRestore(@, Head(toClient[c]).stroke)]
  /\ toClient' = [toClient EXCEPT ![c] = Tail(@)]
  /\ ReplicaTurn("on_restore_stroke", c)
  /\ UNCHANGED <<toServer, log>>

\* case "clear": strokes.splice(0, strokes.length)
OnClear(c) ==
  /\ c \in DOMAIN replicas
  /\ Awaits(toClient, c, "clear")
  /\ replicas' = [replicas EXCEPT ![c].strokes = <<>>]
  /\ toClient' = [toClient EXCEPT ![c] = Tail(@)]
  /\ ReplicaTurn("on_clear", c)
  /\ UNCHANGED <<toServer, log>>

\* renderCursor(id, x, y): the cursor's position is recorded ...
WithCursor(r, id, x, y) ==
  [r EXCEPT !.cursors = [u \in DOMAIN r.cursors \cup {id} |->
                           IF u = id THEN [x |-> x, y |-> y] ELSE r.cursors[u]]]

\* ... and, last line of renderCursor, a cursor message is sent with the
\* replica's own user id
CursorMsg(r, x, y) ==
  [type |-> "cursor", room |-> r.room, userId |-> r.userId, x |-> x, y |-> y]

\* case "cursor": renderCursor(msg.userId, msg.x, msg.y)
OnCursor(c) ==
  /\ c \in DOMAIN replicas
  /\ Awaits(toClient, c, "cursor")
  /\ LET m == Head(toClient[c])
     IN /\ replicas' = [replicas EXCEPT ![c] = WithCursor(@, m.userId, m.x, m.y)]
        /\ toServer' = WsSend(toServer, c, CursorMsg(replicas[c], m.x, m.y))
  /\ toClient' = [toClient EXCEPT ![c] = Tail(@)]
  /\ ReplicaTurn("on_cursor", c)
  /\ UNCHANGED log

\* pointerdown: a gesture starts Pending, whatever the state of the previous
\* one; the temp stroke takes the first point, the buffer starts empty
PointerDown(c, meta) ==
  /\ c \in DOMAIN replicas
  /\ LET r == replicas[c]
         open == log[c].gestures # <<>> /\ LastGesture(log[c]).phase \in {"Pending", "Bound"}
     IN /\ replicas' =
             [replicas EXCEPT
                ![c].drawing = TRUE,
                ![c].currentId = NoStroke,
                ![c].pendingPoints = <<>>,
                ![c].now = r.now + 1,
                ![c].localTempStroke =
                   [id |-> "temp", userId |-> r.userId, color |-> meta.color,
                    size |-> meta.size, tool |-> meta.tool, points |-> <<r.now + 1>>]]
        /\ toServer' = WsSend(toServer, c,
                              [type |-> "begin_stroke", room |-> r.room, stroke |-> meta])
        /\ log' = [log EXCEPT ![c].gestures =
                     Append(IF open
                            THEN LogGesture(log[c], "Superseded", LastGesture(log[c]).bound,
                                            <<>>).gestures
                            ELSE @,
                            NewGesture)]
  /\ ReplicaTurn("pointerdown", c)
  /\ UNCHANGED toClient

\* pointermove: the cursor is rendered (and sent); while drawing, the new
\* point goes to the bound mirror entry or to the temp stroke, and to the
\* buffer.  When the bound entry has no point yet, `last` is undefined and
\* the draw callback throws after s.points.push(p): the handler ends there,
\* before pendingPoints.push(p)
PointerMove(c, pos) ==
  /\ c \in DOMAIN replicas
  /\ LET r == WithCursor(replicas[c], replicas[c].userId, pos.x, pos.y)
         p == r.now + 1
         i == MirrorFindLive(r.strokes, r.currentId)
     IN /\ toServer' = WsSend(toServer, c, CursorMsg(r, pos.x, pos.y))
        /\ IF ~r.drawing
           THEN /\ replicas' = [replicas EXCEPT ![c] = r]
                /\ log' = log
           ELSE IF r.currentId # NoStroke
           THEN IF i = 0
                THEN /\ replicas' = [replicas EXCEPT ![c] = [r EXCEPT !.now = p]]
                     /\ log' = log
                ELSE IF r.strokes[i].points = <<>>
                THEN /\ replicas' = [replicas EXCEPT ![c] =
                                       [r EXCEPT !.now = p,
                                                 !.strokes = MirrorPush(@, i, <<p>>)]]
                     /\ log' = log
                ELSE /\ replicas' = [replicas EXCEPT ![c] =
                                       [r EXCEPT !.now = p,
                                                 !.strokes = MirrorPush(@, i, <<p>>),
                                                 !.pendingPoints = Append(@, p)]]
                     /\ log' = [log EXCEPT ![c] = LogCaptured(@, p)]
           ELSE IF r.localTempStroke # NoTemp
           THEN /\ replicas' = [replicas EXCEPT ![c] =
                                  [r EXCEPT !.now = p,
                                            !.localTempStroke.points = Append(@, p),
                                            !.pendingPoints = Append(@, p)]]
                /\ log' = [log EXCEPT ![c] = LogCaptured(@, p)]
           ELSE /\ replicas' = [replicas EXCEPT ![c] = [r EXCEPT !.now = p]]
                /\ log' = log
  /\ ReplicaTurn("pointermove", c)
  /\ UNCHANGED toClient

\* pointerup / pointercancel / pointerleave: finishStroke()
FinishStroke(c) ==
  /\ c \in DOMAIN replicas
  /\ LET r == replicas[c]
     IN IF ~r.drawing
        THEN UNCHANGED <<replicas, toServer, log>>
        ELSE /\ replicas' = [replicas EXCEPT ![c].drawing = FALSE,
                                             ![c].currentId = NoStroke,
                                             ![c].pendingPoints = <<>>,
                                             ![c].localTempStroke = NoTemp]
             /\ toServer' =
                  IF r.currentId # NoStroke
                  THEN WsSend(toServer, c, [type |-> "end_stroke", room |-> r.room,
                                            strokeId |-> r.currentId])
                  ELSE toServer
             /\ log' = [log EXCEPT ![c] =
                          LogGesture(@, IF r.currentId # NoStroke THEN "EndedBound"
                                        ELSE "EndedPending",
                                     r.currentId, <<>>)]
  /\ ReplicaTurn("finish", c)
  /\ UNCHANGED toClient

\* mutant of FlushDue: the `&& currentId` test is missing
FlushDueWhilePending(r) == r.pendingPoints # <<>>

\* pendingPoints.length && currentId
FlushDue(r) == r.pendingPoints # <<>> /\ r.currentId # NoStroke

\* mutant of Flushed: the buffer is not emptied after the send
FlushedKeepsBuffer(r) == r

\* pendingPoints = [] after the flush sent the buffer
Flushed(r) == [r EXCEPT !.pendingPoints = <<>>]

\* the setInterval callback: the buffer is sent and emptied when a stroke is
\* bound, and left alone otherwise
FlushTimer(c) ==
  /\ c \in DOMAIN replicas
  /\ LET r == replicas[c]
     IN IF FlushDue(r)
        THEN /\ toServer' = WsSend(toServer, c,
                                   [type |-> "add_points", room |-> r.room,
                                    strokeId |-> r.currentId, points |-> r.pendingPoints])
             /\ replicas' = [replicas EXCEPT ![c] = Flushed(r)]
             /\ log' = [log EXCEPT ![c] = LogSent(@, r.pendingPoints)]
        ELSE UNCHANGED <<replicas, toServer, log>>
  /\ ReplicaTurn("flush", c)
  /\ UNCHANGED toClient

\* the user ids a client on connection c names in undo / redo / cursor:
\* a named user or the random id its connection started with
MsgUsers(c) == Users \cup {ConnUUID(c)}

\* the add_points messages handled so far that named a stroke of the
\* sender's room
RECURSIVE SumLen(_, _)
SumLen(f, S) ==
  IF S = {} THEN 0
  ELSE LET i == CHOOSE j \in S : TRUE IN Len(f[i]) + SumLen(f, S \ {i})
TotalReceived == SumLen(received, DOMAIN received)

\* ------------------------------------------------------- specifications
\* every message type, two connections that keep their random user ids and
\* move between two rooms
Next ==
  \/ \E c \in Conns : Connection(c)
  \/ \E c \in Conns : Close(c)
  \/ \E c \in Conns : ParseFailure(c)
  \/ \E c \in Conns, room \in RoomNames : JoinRoom(c, room, "")
  \/ \E c \in Conns : nextId <= MaxStrokes /\ BeginStroke(c, Pen)
  \/ \E c \in Conns, id \in 1..MaxStrokes, pts \in ShortBatches :
        TotalReceived < MaxBatches /\ AddPoints(c, id, pts)
  \/ \E c \in Conns, id \in 1..MaxStrokes : EndStroke(c, id)
  \/ \E c \in Conns : Undo(c, ConnUUID(c))
  \/ \E c \in Conns : Redo(c, ConnUUID(c))
  \/ \E c \in Conns : Clear(c)
  \/ \E c \in Conns, pos \in Positions : Cursor(c, ConnUUID(c), pos)

Spec == Init /\ [][Next]_vars

\* one author (connection 1) and one listener (connection 2, which only
\* connects): begin / add / end traffic with batches on both sides of the cap
NextStrokes ==
  \/ \E c \in Conns : Connection(c)
  \/ \E userId \in Users \cup {""} : JoinRoom(1, "default", userId)
  \/ \E meta \in Metas : nextId <= MaxAuthorStrokes /\ BeginStroke(1, meta)
  \/ \E id \in 1..MaxAuthorStrokes, pts \in Batches :
        TotalReceived < MaxAuthorBatches /\ AddPoints(1, id, pts)
  \/ \E id \in 1..MaxAuthorStrokes : EndStroke(1, id)

SpecStrokes == Init /\ [][NextStrokes]_vars

\* one connection in one room, drawing under two user ids: undo / redo / clear
NextUndo ==
  \/ Connection(1)
  \/ \E userId \in Users \cup {""} : JoinRoom(1, "default", userId)
  \/ nextId <= MaxUndoStrokes /\ BeginStroke(1, Pen)
  \/ \E userId \in MsgUsers(1) : Undo(1, userId)
  \/ \E userId \in MsgUsers(1) : Redo(1, userId)
  \/ Clear(1)

SpecUndo == Init /\ [][NextUndo]_vars

\* one connection in one room, drawing under two user ids, whose strokes
\* receive points and are tombstoned, restored and cleared
NextRedo ==
  \/ Connection(1)
  \/ \E userId \in Users \cup {""} : JoinRoom(1, "default", userId)
  \/ nextId <= MaxRedoStrokes /\ BeginStroke(1, Pen)
  \/ \E id \in 1..MaxRedoStrokes, pts \in ShortBatches :
        TotalReceived < MaxRedoBatches /\ AddPoints(1, id, pts)
  \/ \E userId \in MsgUsers(1) : Undo(1, userId)
  \/ \E userId \in MsgUsers(1) : Redo(1, userId)
  \/ \E id \in 1..MaxRedoStrokes : EndStroke(1, id)
  \/ Clear(1)

SpecRedo == Init /\ [][NextRedo]_vars

\* whether the input of a replica may still arrive: within the bounds
InputAllowed(c) ==
  /\ c \in DOMAIN replicas
  /\ Len(toServer[c]) < MaxInFlight

\* one page (connection 1) draws in the room "default" with one pointer (a
\* gesture starts when none is in progress): its gestures, the flush timer,
\* and the Authority handling what the page sent
NextReplica ==
  \/ Connection(1)
  \/ Open(1, "default")
  \/ Awaits(toServer, 1, "join_room")
       /\ JoinRoom(1, Head(toServer[1]).room, Head(toServer[1]).userId)
  \/ Awaits(toServer, 1, "begin_stroke") /\ BeginStroke(1, Head(toServer[1]).stroke)
  \/ Awaits(toServer, 1, "add_points")
       /\ AddPoints(1, Head(toServer[1]).strokeId, Head(toServer[1]).points)
  \/ Awaits(toServer, 1, "end_stroke") /\ EndStroke(1, Head(toServer[1]).strokeId)
  \/ Awaits(toServer, 1, "cursor")
       /\ Cursor(1, Head(toServer[1]).userId,
                 [x |-> Head(toServer[1]).x, y |-> Head(toServer[1]).y])
  \/ OnRoomState(1)
  \/ OnBeginStroke(1)
  \/ InputAllowed(1) /\ Len(log[1].gestures) < MaxGestures
       /\ replicas[1].now < MaxClock /\ ~replicas[1].drawing /\ PointerDown(1, Pen)
  \/ \E pos \in Positions :
       InputAllowed(1) /\ replicas[1].now < MaxClock /\ PointerMove(1, pos)
  \/ InputAllowed(1) /\ FinishStroke(1)
  \/ FlushTimer(1)

SpecReplica == Init /\ [][NextReplica]_vars

\* whether connection c may act now: few events wait for the listening page
ListenerKeepsUp == Len(toClient[2]) < MaxWaiting

\* one page (connection 2) joins the room "default" and only listens, while
\* connection 1, driven by the environment in the same room, draws, undoes,
\* redoes and clears
NextMirror ==
  \/ \E c \in Conns : Connection(c)
  \/ Open(2, "default")
  \/ Awaits(toServer, 2, "join_room")
       /\ JoinRoom(2, Head(toServer[2]).room, Head(toServer[2]).userId)
  \/ ListenerKeepsUp /\ nextId <= MaxMirrorStrokes /\ BeginStroke(1, Pen)
  \/ \E id \in 1..MaxMirrorStrokes, pts \in ShortBatches :
       ListenerKeepsUp /\ TotalReceived < MaxMirrorBatches /\ AddPoints(1, id, pts)
  \/ \E id \in 1..MaxMirrorStrokes : ListenerKeepsUp /\ id < nextId /\ EndStroke(1, id)
  \/ ListenerKeepsUp /\ Undo(1, ConnUUID(1))
  \/ ListenerKeepsUp /\ Redo(1, ConnUUID(1))
  \/ ListenerKeepsUp /\ Clear(1)
  \/ OnRoomState(2)
  \/ OnBeginStroke(2)
  \/ OnAddPoints(2)
  \/ OnEndStroke(2)
  \/ OnRemoveStroke(2)
  \/ OnRestoreStroke(2)
  \/ OnClear(2)

SpecMirror == Init /\ [][NextMirror]_vars

\* the messages and events on their way, over all connections
RECURSIVE InFlight(_)
InFlight(S) ==
  IF S = {} THEN 0
  ELSE LET c == CHOOSE d \in S : TRUE
       IN Len(toServer[c]) + Len(toClient[c]) + InFlight(S \ {c})

\* two pages in the room "default" that move their pointers without
\* drawing, and the Authority relaying their cursor messages
NextCursor ==
  \/ \E c \in Conns : Connection(c)
  \/ \E c \in Conns : Open(c, "default")
  \/ \E c \in Conns :
       Awaits(toServer, c, "join_room")
         /\ JoinRoom(c, Head(toServer[c]).room, Head(toServer[c]).userId)
  \/ \E c \in Conns :
       Awaits(toServer, c, "cursor")
         /\ Cursor(c, Head(toServer[c]).userId,
                   [x |-> Head(toServer[c]).x, y |-> Head(toServer[c]).y])
  \/ \E c \in Conns : OnRoomState(c)
  \/ \E c \in Conns : OnCursor(c)
  \/ \E c \in Conns, pos \in Positions :
       c \in DOMAIN replicas /\ InFlight(Conns) < MaxCursors /\ PointerMove(c, pos)

SpecCursor == Init /\ [][NextCursor]_vars

\* --------------------------------------------------------------- claims
\* helpers of the properties below (they read the state, they model no code)
IdsBy(strokes, userId) ==
  LET own == SelectSeq(strokes, LAMBDA st : st.userId = userId)
  IN [i \in 1..Len(own) |-> own[i].id]
TombstonedIds(strokes) == {strokes[i].id : i \in {j \in 1..Len(strokes) : strokes[j].removed}}
IndexOf(strokes, id) == CHOOSE i \in 1..Len(strokes) : strokes[i].id = id
HasId(strokes, id) == \E i \in 1..Len(strokes) : strokes[i].id = id
IsLive(strokes, id) == \E i \in 1..Len(strokes) : strokes[i].id = id /\ ~strokes[i].removed
Prefix(seq, n) == [i \in 1..(IF Len(seq) < n THEN Len(seq) ELSE n) |-> seq[i]]
RECURSIVE Flatten(_)
Flatten(ss) == IF ss = <<>> THEN <<>> ELSE Flatten(SubSeq(ss, 1, Len(ss) - 1)) \o ss[Len(ss)]
AllViewsSame(before, after) ==
  \A r \in RoomNames : RoomView(after, r) = RoomView(before, r)

\* the case of C1 as stated: the last three turns of the room were undo,
\* undo, redo by one user who authored exactly three strokes A, B, C there,
\* and no stroke of the room was tombstoned before the first undo
C1_Case ==
  /\ Len(hist) = 3
  /\ hist[1].type = "undo" /\ hist[2].type = "undo" /\ hist[3].type = "redo"
  /\ hist[2].userId = hist[1].userId /\ hist[3].userId = hist[1].userId
  /\ Len(IdsBy(hist[1].pre.strokes, hist[1].userId)) = 3
  /\ TombstonedIds(hist[1].pre.strokes) = {}

\* C1 as stated: undo, undo tombstones C then B, and the following redo
\* restores B
C1_Original ==
  C1_Case =>
    LET ids == IdsBy(hist[1].pre.strokes, hist[1].userId)
    IN hist[1].target = ids[3] /\ hist[2].target = ids[2] /\ hist[3].target = ids[2]

\* C1 amended: with strokes A, B, C created in that order by one user, nothing
\* tombstoned and the user's stack holding A, B, C in creation order (no
\* earlier redo re-pushed an id), undo, undo tombstones C then B, and the
\* following redo restores C (the most recently created tombstoned stroke of
\* the user), which leaves B tombstoned
C1_UndoUndoRedoRestoresLatestCreated ==
  LET ids == IdsBy(hist[1].pre.strokes, hist[1].userId)
      now == RoomView(rooms, hist[3].room).strokes
  IN C1_Case /\ StackOf(hist[1].pre.userStacks, hist[1].userId) = ids =>
       /\ hist[1].target = ids[3]
       /\ hist[2].target = ids[2]
       /\ hist[3].target = ids[3]
       /\ TombstonedIds(now) = {ids[2]}

\* C1 witness: the undo, undo, redo run happened on an in-order stack, in a
\* room where another user's stroke is interleaved with A, B, C
C1_Witness ==
  /\ C1_Case
  /\ StackOf(hist[1].pre.userStacks, hist[1].userId) = IdsBy(hist[1].pre.strokes, hist[1].userId)
  /\ hist[3].target # NoStroke
  /\ Len(hist[1].pre.strokes) > 3

\* the case of C4: the last two turns of the room were an undo by a user,
\* which tombstoned a stroke, and a redo by the same user
C4_Case ==
  /\ Len(hist) >= 2
  /\ hist[Len(hist) - 1].type = "undo"
  /\ hist[Len(hist)].type = "redo"
  /\ hist[Len(hist)].userId = hist[Len(hist) - 1].userId

\* the only event the last turn sent to its own connection
SoleReply == sent[lastOp.conn][1]

\* C4 as stated: the redo restores the stroke the undo tombstoned, with the
\* points it had just before the undo, in the room and in the payload
C4_Original ==
  C4_Case =>
    LET u == hist[Len(hist) - 1]
        x == u.target
        before == u.pre.strokes[IndexOf(u.pre.strokes, x)]
        now == RoomView(rooms, u.room).strokes
    IN /\ hist[Len(hist)].target = x
       /\ now[IndexOf(now, x)].points = before.points
       /\ ~now[IndexOf(now, x)].removed
       /\ Len(sent[lastOp.conn]) = 1
       /\ SoleReply.type = "restore_stroke"
       /\ SoleReply.stroke.id = x
       /\ SoleReply.stroke.points = before.points

\* C4 amended: undo by user u that tombstones a stroke x, immediately followed
\* by redo by u, restores the most recently created tombstoned stroke authored
\* by u (x itself when no stroke of u created after x was tombstoned already),
\* and the restored stroke's points, in the room and in the restore_stroke
\* payload, are the points it had just before the undo
C4_UndoRedoRestoresLatestCreated ==
  C4_Case =>
    LET u == hist[Len(hist) - 1]
        x == u.target
        pre == u.pre.strokes
        xi == IndexOf(pre, x)
        cand == {i \in 1..Len(pre) :
                   pre[i].userId = u.userId /\ (pre[i].removed \/ i = xi)}
        zi == CHOOSE i \in cand : \A j \in cand : j <= i
        now == RoomView(rooms, u.room).strokes
    IN /\ pre[xi].userId = u.userId
       /\ hist[Len(hist)].target = pre[zi].id
       /\ (\A i \in cand : i <= xi) => hist[Len(hist)].target = x
       /\ Len(now) = Len(pre)
       /\ now[zi].id = pre[zi].id
       /\ now[zi].points = pre[zi].points
       /\ ~now[zi].removed
       /\ Len(sent[lastOp.conn]) = 1
       /\ SoleReply.type = "restore_stroke"
       /\ SoleReply.stroke.id = pre[zi].id
       /\ SoleReply.stroke.points = pre[zi].points

\* C4 witness: an undo and redo pair that tombstoned and restored the same
\* stroke, which holds points
C4_Witness ==
  /\ C4_Case
  /\ hist[Len(hist)].target = hist[Len(hist) - 1].target
  /\ \E i \in 1..Len(RoomView(rooms, lastOp.room).strokes) :
        /\ RoomView(rooms, lastOp.room).strokes[i].id = hist[Len(hist)].target
        /\ RoomView(rooms, lastOp.room).strokes[i].points # <<>>

\* the strokes the Authority holds, over all rooms
AllStrokes ==
  UNION {{RoomView(rooms, r).strokes[i] : i \in 1..Len(RoomView(rooms, r).strokes)} :
           r \in RoomNames}
CappedAll(ss) == [k \in 1..Len(ss) |-> Prefix(ss[k], BatchCap)]

\* C2 as stated: under begin / add / end traffic of one author, a stroke's
\* points are the concatenation, in received order, of the payloads of the
\* add_points messages addressed to it
C2_Original ==
  \A st \in AllStrokes : st.points = Flatten(received[st.id])

\* C2 amended: under begin / add / end traffic of one author, a stroke's
\* points are the concatenation, in received order, of the first 200 points
\* (at most) of each add_points payload addressed to it
C2_PointsAreCappedPayloadsInOrder ==
  \A st \in AllStrokes : st.points = Flatten(CappedAll(received[st.id]))

\* C2 witness: a stroke received two different batches, one of them longer
\* than the cap, while a second stroke exists
C2_Witness ==
  \E st \in AllStrokes :
    /\ Len(received[st.id]) = 2
    /\ Len(received[st.id][1]) > BatchCap
    /\ Len(received[st.id][2]) < BatchCap
    /\ st.points # <<>>
    /\ Cardinality(AllStrokes) > 1

\* whether a turn handled add_points for a stroke that was live in the
\* sender's room when the message arrived
AddToLive ==
  /\ lastOp'.type = "add_points"
  /\ IsLive(RoomView(rooms, clients[lastOp'.conn].room).strokes, lastOp'.strokeId)

\* C7: an add_points batch of n points for a live stroke appends exactly its
\* first min(n, 200) points, in order, to that stroke and to no other, and
\* every connection the batch is relayed to gets exactly those points
C7_FirstTwoHundredAppliedAndBroadcast ==
  [][AddToLive =>
       LET room == clients[lastOp'.conn].room
           old == RoomView(rooms, room).strokes
           new == RoomView(rooms', room).strokes
           i == IndexOf(old, lastOp'.strokeId)
           n == Len(lastOp'.points)
           kept == Prefix(lastOp'.points, IF n < 200 THEN n ELSE 200)
       IN /\ Len(new) = Len(old)
          /\ new[i].points = old[i].points \o kept
          /\ \A j \in 1..Len(old) : j # i => new[j] = old[j]
          /\ \A c \in Conns :
               sent'[c] # <<>> =>
                 sent'[c] = <<[type |-> "add_points", strokeId |-> lastOp'.strokeId,
                               points |-> kept]>>
          /\ \A c \in Conns :
               c # lastOp'.conn /\ c \in DOMAIN clients /\ clients[c].readyState = "OPEN"
                 /\ clients[c].room = room => sent'[c] # <<>>
    ]_vars

\* C7 witness: a batch of 250 points was handled for a live stroke that
\* already had points, and relayed to the listener
C7_Witness ==
  /\ lastOp.type = "add_points"
  /\ lastOp.target # NoStroke
  /\ Len(lastOp.points) = 250
  /\ \E c \in Conns : c # lastOp.conn /\ sent[c] # <<>>
  /\ \E st \in AllStrokes : st.id = lastOp.strokeId /\ Len(st.points) > 200

\* the connections that are open and associated with the room of the
\* connection whose message the last turn handled
RoomAudience ==
  {c \in DOMAIN clients :
     clients[c].readyState = "OPEN" /\ clients[c].room = clients[lastOp.conn].room}
Recipients == {c \in Conns : sent[c] # <<>>}
AllSentAre(type) == \A c \in Conns : \A k \in 1..Len(sent[c]) : sent[c][k].type = type

\* C3: the event a turn derives goes to exactly the open connections of the
\* sender's room: begin_stroke, remove_stroke, restore_stroke and clear to
\* all of them, the sender included; add_points, end_stroke and cursor to all
\* of them but the sender
C3_FanOutAudience ==
  /\ lastOp.type = "begin_stroke" =>
       Recipients = RoomAudience /\ lastOp.conn \in Recipients /\ AllSentAre("begin_stroke")
  /\ lastOp.type = "undo" /\ lastOp.target # NoStroke =>
       Recipients = RoomAudience /\ lastOp.conn \in Recipients /\ AllSentAre("remove_stroke")
  /\ lastOp.type = "redo" /\ lastOp.target # NoStroke =>
       Recipients = RoomAudience /\ lastOp.conn \in Recipients /\ AllSentAre("restore_stroke")
  /\ lastOp.type = "clear" =>
       Recipients = RoomAudience /\ lastOp.conn \in Recipients /\ AllSentAre("clear")
  /\ lastOp.type = "add_points" /\ lastOp.target # NoStroke =>
       Recipients = RoomAudience \ {lastOp.conn} /\ AllSentAre("add_points")
  /\ lastOp.type = "end_stroke" =>
       Recipients = RoomAudience \ {lastOp.conn} /\ AllSentAre("end_stroke")
  /\ lastOp.type = "cursor" =>
       Recipients = RoomAudience \ {lastOp.conn} /\ AllSentAre("cursor")

\* C3 witness: a point batch was applied and relayed to the other connection
\* of the room, not to its author
C3_Witness ==
  /\ lastOp.type = "add_points"
  /\ lastOp.target # NoStroke
  /\ Recipients = Conns \ {lastOp.conn}

\* whether the turn handled a message of a connection (not a connect / close)
MessageTurn == lastOp'.type \notin {"none", "connection", "close"}

\* C5: a turn handled for a connection in room R changes the strokes and
\* stacks of no other room and sends nothing to a connection of another
\* room; add_points naming a stroke that lives in another room finds nothing
C5_RoomsIsolated ==
  [][MessageTurn =>
       LET R == clients'[lastOp'.conn].room
       IN /\ \A r \in RoomNames \ {R} : RoomView(rooms', r) = RoomView(rooms, r)
          /\ \A c \in Conns : sent'[c] # <<>> => clients'[c].room = R
          /\ (/\ lastOp'.type = "add_points"
              /\ \E r \in RoomNames \ {R} : HasId(RoomView(rooms, r).strokes, lastOp'.strokeId))
             => AllViewsSame(rooms, rooms') /\ sent' = NoneSent
    ]_vars

\* C5 witness: add_points named a live stroke of the other room, where an
\* open connection sits, and came from a room that holds no stroke
C5_Witness ==
  /\ lastOp.type = "add_points"
  /\ \E r \in RoomNames \ {lastOp.room} :
       /\ IsLive(RoomView(rooms, r).strokes, lastOp.strokeId)
       /\ \E c \in DOMAIN clients : clients[c].readyState = "OPEN" /\ clients[c].room = r

\* C6: add_points naming a stroke id that is missing from the sender's room or
\* tombstoned there changes no room's strokes or stacks and sends nothing to
\* anyone (no broadcast, no error reply)
C6_AddPointsMissOrTombstoneIsNoOp ==
  [][(/\ lastOp'.type = "add_points"
      /\ ~IsLive(RoomView(rooms, clients[lastOp'.conn].room).strokes, lastOp'.strokeId))
     => AllViewsSame(rooms, rooms') /\ sent' = NoneSent
    ]_vars

\* C6 witness: add_points was handled for a tombstoned stroke of the sender's
\* room while another connection was open in that room
C6_Witness ==
  /\ lastOp.type = "add_points"
  /\ HasId(RoomView(rooms, lastOp.room).strokes, lastOp.strokeId)
  /\ ~IsLive(RoomView(rooms, lastOp.room).strokes, lastOp.strokeId)
  /\ \E c \in DOMAIN clients :
       c # lastOp.conn /\ clients[c].readyState = "OPEN" /\ clients[c].room = lastOp.room

\* C10: join_room changes no room's strokes or stacks, answers the joining
\* connection alone with one room_state carrying the joined room's full
\* state, and two joins of one room handled in a row get the same snapshot
C10_JoinIsReadOnlySnapshot ==
  [][lastOp'.type = "join_room" =>
       LET c == lastOp'.conn
           R == clients'[c].room
       IN /\ AllViewsSame(rooms, rooms')
          /\ sent'[c] = <<[type |-> "room_state", state |-> RoomView(rooms, R)]>>
          /\ \A d \in Conns \ {c} : sent'[d] = <<>>
          /\ (lastOp.type = "join_room" /\ clients[lastOp.conn].room = R)
             => sent'[c][1] = sent[lastOp.conn][1]
    ]_vars

\* C10 witness: a join was answered with a snapshot that holds a tombstoned
\* stroke with its points
C10_Witness ==
  /\ lastOp.type = "join_room"
  /\ Len(sent[lastOp.conn]) = 1
  /\ \E i \in 1..Len(sent[lastOp.conn][1].state.strokes) :
       /\ sent[lastOp.conn][1].state.strokes[i].removed
       /\ sent[lastOp.conn][1].state.strokes[i].points # <<>>

\* C8: once clear was handled for a room, and until a begin_stroke creates a
\* stroke there, the room holds no stroke and no user stack, and every undo
\* or redo handled for it changes nothing and sends nothing
C8_ClearedRoomStaysEmpty ==
  [][/\ \A r \in cleared' : r \in DOMAIN rooms' /\ rooms'[r] = EmptyRoom
     /\ (lastOp'.type \in {"undo", "redo"} /\ clients[lastOp'.conn].room \in cleared)
        => AllViewsSame(rooms, rooms') /\ sent' = NoneSent
    ]_vars

\* C8 witness: strokes were drawn, the room was cleared, and a redo was then
\* handled in the cleared room
C8_Witness ==
  /\ lastOp.type = "redo"
  /\ lastOp.room \in cleared
  /\ nextId > 2

\* the ids of a room's user stack that undo could still tombstone
Removable(state, userId) ==
  {k \in 1..Len(StackOf(state.userStacks, userId)) :
     IsLive(state.strokes, StackOf(state.userStacks, userId)[k])}

\* C9: undo for a user whose stack in the sender's room is absent, empty or
\* holds no live stroke leaves every room's strokes and stacks as they were
\* (an absent stack stays absent) and sends nothing
C9_ExhaustedUndoIsNoOp ==
  [][(/\ lastOp'.type = "undo"
      /\ Removable(RoomView(rooms, clients[lastOp'.conn].room), lastOp'.userId) = {})
     => AllViewsSame(rooms, rooms') /\ sent' = NoneSent
    ]_vars

\* C9 witness: an undo that removed nothing was handled for a user who has
\* strokes in the room and an emptied stack, while another user has no stack
C9_Witness ==
  /\ lastOp.type = "undo"
  /\ lastOp.target = NoStroke
  /\ LET state == RoomView(rooms, lastOp.room)
     IN /\ lastOp.userId \in DOMAIN state.userStacks
        /\ state.userStacks[lastOp.userId] = <<>>
        /\ IdsBy(state.strokes, lastOp.userId) # <<>>
        /\ \E u \in Users : u \notin DOMAIN state.userStacks

\* whether seq p is a prefix of seq q
IsPrefix(p, q) == Len(p) <= Len(q) /\ SubSeq(q, 1, Len(p)) = p

\* C11: across every turn of the Authority other than a clear, every stroke
\* of every room stays in room.strokes at the same position with the same
\* id and author, and the points it had are a prefix of the points it has
\* after the turn (undo only sets the tombstone flag)
C11_StrokesStayAndPointsOnlyGrow ==
  [][lastOp'.type # "clear" =>
       \A r \in RoomNames :
         LET old == RoomView(rooms, r).strokes
             new == RoomView(rooms', r).strokes
         IN /\ Len(old) <= Len(new)
            /\ \A i \in 1..Len(old) :
                 /\ new[i].id = old[i].id
                 /\ new[i].userId = old[i].userId
                 /\ IsPrefix(old[i].points, new[i].points)
    ]_vars

\* C11 witness: an undo tombstoned the first of two strokes, which still
\* holds its points
C11_Witness ==
  /\ lastOp.type = "undo"
  /\ lastOp.target # NoStroke
  /\ LET strokes == RoomView(rooms, lastOp.room).strokes
     IN /\ Len(strokes) = 2
        /\ strokes[1].id = lastOp.target
        /\ strokes[1].removed
        /\ strokes[1].points # <<>>

\* the ids of a sequence of ids, and whether none occurs twice
Range(seq) == {seq[i] : i \in 1..Len(seq)}
NoDuplicates(seq) == Cardinality(Range(seq)) = Len(seq)
LiveIdsBy(strokes, userId) ==
  {strokes[i].id : i \in {j \in 1..Len(strokes) :
                             strokes[j].userId = userId /\ ~strokes[j].removed}}

\* the user ids a room knows: those with a stack and the authors of strokes
KnownUsers(state) ==
  DOMAIN state.userStacks \cup {state.strokes[i].userId : i \in 1..Len(state.strokes)}

\* the stacks of every room hold, without duplicates, exactly the ids of the
\* live strokes of their user
StacksMatchLiveStrokes ==
  \A r \in RoomNames :
    LET state == RoomView(rooms, r)
    IN \A u \in KnownUsers(state) :
         /\ NoDuplicates(StackOf(state.userStacks, u))
         /\ Range(StackOf(state.userStacks, u)) = LiveIdsBy(state.strokes, u)

\* C18: in every reachable state, for every room and user u, userStacks[u]
\* holds no id twice and holds exactly the ids of the live strokes of the
\* room authored by u; and an undo for u with a non-empty stack pops one id
\* only, the top one, and tombstones that stroke, which u authored
C18_StacksHoldExactlyLiveStrokes ==
  /\ []StacksMatchLiveStrokes
  /\ [][lastOp'.type = "undo" =>
          LET room == clients[lastOp'.conn].room
              old == RoomView(rooms, room)
              new == RoomView(rooms', room)
              stack == StackOf(old.userStacks, lastOp'.userId)
          IN IF stack = <<>>
             THEN lastOp'.target = NoStroke /\ new = old
             ELSE /\ lastOp'.target = stack[Len(stack)]
                  /\ StackOf(new.userStacks, lastOp'.userId) = SubSeq(stack, 1, Len(stack) - 1)
                  /\ old.strokes[IndexOf(old.strokes, lastOp'.target)].userId = lastOp'.userId
                  /\ TombstonedIds(new.strokes) = TombstonedIds(old.strokes) \cup {lastOp'.target}
       ]_vars

\* C18 witness: an undo tombstoned a stroke of a user who still has a live
\* stroke on the stack, put there again by an earlier redo, while another
\* user of the room has a stack of their own
C18_Witness ==
  /\ lastOp.type = "undo"
  /\ lastOp.target # NoStroke
  /\ LET state == RoomView(rooms, lastOp.room)
         stack == StackOf(state.userStacks, lastOp.userId)
     IN /\ stack # <<>>
        /\ stack # IdsBy(SelectSeq(state.strokes, LAMBDA st : ~st.removed), lastOp.userId)
        /\ \E u \in DOMAIN state.userStacks : u # lastOp.userId /\ state.userStacks[u] # <<>>

\* the points a sequence gained over an earlier version of it
Gained(old, new) == SubSeq(new, Len(old) + 1, Len(new))

\* C12 as stated: in a pointermove turn of a Bound replica, every point that
\* is appended to an entry of the mirror is appended to the outbound buffer
\* in the same turn, also when the entry had no point before
C12_BoundPointIsMirroredAndQueued ==
  [][lastOp'.type = "pointermove" /\ replicas[lastOp'.conn].currentId # NoStroke =>
       LET old == replicas[lastOp'.conn]
           new == replicas'[lastOp'.conn]
       IN \A i \in 1..Len(old.strokes) :
            Len(new.strokes[i].points) > Len(old.strokes[i].points) =>
              new.pendingPoints =
                old.pendingPoints \o Gained(old.strokes[i].points, new.strokes[i].points)
    ]_vars

\* the turns that are a replica's (lastOp.type), and the messages such a
\* turn put on the replica's outbound channel
ReplicaTurns ==
  {"open", "on_room_state", "on_begin_stroke", "on_add_points", "on_end_stroke",
   "on_remove_stroke", "on_restore_stroke", "on_clear", "on_cursor", "pointerdown",
   "pointermove", "finish", "flush"}
SentInTurn(c) == Gained(toServer[c], toServer'[c])
AddPointsSentInTurn(c) ==
  {SentInTurn(c)[k] : k \in {j \in 1..Len(SentInTurn(c)) : SentInTurn(c)[j].type = "add_points"}}

\* the gestures of a replica that ended while Pending
EndedPending(c) ==
  {k \in 1..Len(log[c].gestures) : log[c].gestures[k].phase = "EndedPending"}

\* no point buffered by a gesture that ended Pending was sent, waits in the
\* buffer, or is in flight
DroppedPointsStayUnsent ==
  \A c \in DOMAIN replicas : \A k \in EndedPending(c) :
    LET dropped == Range(log[c].gestures[k].captured)
    IN /\ dropped \cap Range(log[c].sentPoints) = {}
       /\ dropped \cap Range(replicas[c].pendingPoints) = {}
       /\ \A j \in 1..Len(toServer[c]) :
            toServer[c][j].type = "add_points" => dropped \cap Range(toServer[c][j].points) = {}

\* C13: a replica sends add_points only in a turn that leaves its gesture
\* Bound, under the bound id; a flush turn while Pending sends nothing and
\* keeps the buffer; a finish turn while Pending sends nothing and empties
\* the buffer; and the points a gesture buffered before it ended Pending are
\* never sent, whatever arrives later
C13_NoAddPointsBeforeBound ==
  /\ []DroppedPointsStayUnsent
  /\ [][lastOp'.type \in ReplicaTurns =>
          LET c == lastOp'.conn
              pending == c \in DOMAIN replicas /\ replicas[c].drawing
                           /\ replicas[c].currentId = NoStroke
          IN /\ \A m \in AddPointsSentInTurn(c) :
                  /\ replicas'[c].currentId # NoStroke
                  /\ m.strokeId = replicas'[c].currentId
                  /\ LastGesture(log'[c]).phase = "Bound"
             /\ lastOp'.type = "flush" /\ pending =>
                  /\ SentInTurn(c) = <<>>
                  /\ replicas'[c].pendingPoints = replicas[c].pendingPoints
             /\ lastOp'.type = "finish" /\ pending =>
                  /\ SentInTurn(c) = <<>>
                  /\ replicas'[c].pendingPoints = <<>>
       ]_vars

\* C13 witness: a gesture ended Pending with points in its buffer, its echo
\* arrived during the next gesture, and that gesture sent points of its own
C13_Witness ==
  /\ 1 \in DOMAIN replicas
  /\ Len(log[1].gestures) = 2
  /\ log[1].gestures[1].phase = "EndedPending"
  /\ log[1].gestures[1].captured # <<>>
  /\ log[1].gestures[2].phase = "Bound"
  /\ log[1].sentPoints # <<>>

\* whether seq a is seq b with some elements left out
RECURSIVE IsSubseq(_, _)
IsSubseq(a, b) ==
  IF a = <<>> THEN TRUE
  ELSE IF b = <<>> THEN FALSE
  ELSE IF Head(a) = Head(b) THEN IsSubseq(Tail(a), Tail(b))
  ELSE IsSubseq(a, Tail(b))

\* every point a replica buffered, over its gestures, in capture order
AllCaptured(lg) == Flatten([k \in 1..Len(lg.gestures) |-> lg.gestures[k].captured])

\* the points a replica sent are, in the order sent, buffered points in
\* capture order, none of them twice
SentOnceInCaptureOrder ==
  \A c \in DOMAIN replicas :
    /\ NoDuplicates(log[c].sentPoints)
    /\ IsSubseq(log[c].sentPoints, AllCaptured(log[c]))

\* C14: for any interleaving of input, begin-echo and flush-timer turns of a
\* replica, each buffered point is sent at most once and the points sent
\* appear, across the add_points messages, in capture order; and every turn
\* that sends add_points (the bind and the flush) sends the whole buffer and
\* leaves it empty
C14_EachPointSentOnceInOrder ==
  /\ []SentOnceInCaptureOrder
  /\ [][lastOp'.type \in ReplicaTurns =>
          \A m \in AddPointsSentInTurn(lastOp'.conn) :
            /\ m.points = replicas[lastOp'.conn].pendingPoints
            /\ replicas'[lastOp'.conn].pendingPoints = <<>>
       ]_vars

\* C14 witness: a flush sent a point captured after the bind-time send of an
\* earlier point of the same gesture
C14_Witness ==
  /\ lastOp.type = "flush"
  /\ Len(log[lastOp.conn].gestures) = 1
  /\ Len(log[lastOp.conn].sentPoints) = 2
  /\ toServer[lastOp.conn] # <<>>
  /\ toServer[lastOp.conn][Len(toServer[lastOp.conn])].type = "add_points"
  /\ Len(toServer[lastOp.conn][Len(toServer[lastOp.conn])].points) = 1

\* the ids the Authority allocated for the begin requests of a replica, in
\* the order of the requests (the replica's strokes in its room; no clear
\* is handled where this is used)
AllocatedFor(c) == IdsBy(RoomView(rooms, replicas[c].room).strokes, replicas[c].userId)

\* C15 as stated: the id a gesture binds is the id the Authority allocated
\* for the begin request of that same gesture, and no id is bound by two
\* gestures
C15_BindsOwnGestureId ==
  \A c \in DOMAIN replicas :
    LET g == log[c].gestures
    IN /\ \A k \in 1..Len(g) :
            g[k].bound # NoStroke =>
              k <= Len(AllocatedFor(c)) /\ g[k].bound = AllocatedFor(c)[k]
       /\ \A j, k \in 1..Len(g) :
            j # k /\ g[j].bound # NoStroke => g[j].bound # g[k].bound

\* C16 as stated: once a gesture was Bound and ended and the Authority has
\* handled every message of the replica, the Authority's points of the
\* bound stroke are the points of that stroke in the replica's mirror (no
\* undo or clear is handled and no batch exceeds the cap where this is used)
C16_AuthorityHoldsAuthorsPoints ==
  \A c \in DOMAIN replicas :
    \A k \in 1..Len(log[c].gestures) :
      log[c].gestures[k].phase = "EndedBound" /\ toServer[c] = <<>> =>
        LET id == log[c].gestures[k].bound
            canon == RoomView(rooms, replicas[c].room).strokes
            mirror == replicas[c].strokes
        IN canon[IndexOf(canon, id)].points = mirror[MirrorFind(mirror, id)].points

\* C17 as stated: a begin_stroke turn sends the event exactly once to every
\* open connection of the room, the initiator included, and no mirror holds
\* two entries with one id
C17_BeginSentOnceToEach ==
  /\ lastOp.type = "begin_stroke" =>
       \A c \in Conns : Len(sent[c]) = IF c \in RoomAudience THEN 1 ELSE 0
  /\ \A c \in DOMAIN replicas :
       NoDuplicates([i \in 1..Len(replicas[c].strokes) |-> replicas[c].strokes[i].id])

\* whether the replica of connection c has joined and nothing it sent or
\* was sent is still on its way
Settled(c) ==
  /\ c \in DOMAIN replicas
  /\ IsOpen(c)
  /\ clients[c].userId = replicas[c].userId
  /\ toServer[c] = <<>>
  /\ toClient[c] = <<>>

\* C19: a page that joined a room, stays open and authors nothing holds,
\* once it has handled every event sent to it, the strokes of the
\* Authority's room: the same ids in the same order with the same points
\* and tombstone flags, whatever the other connection did
C19_ListenerMirrorsAuthority ==
  \A c \in DOMAIN replicas :
    Settled(c) /\ log[c].gestures = <<>> =>
      replicas[c].strokes = RoomView(rooms, clients[c].room).strokes

\* C19 witness: the listening page has just handled a restore_stroke, after
\* which it is settled and holds two strokes, the restored one with points
C19_Witness ==
  /\ lastOp.type = "on_restore_stroke"
  /\ Settled(2)
  /\ Len(replicas[2].strokes) = 2
  /\ \E i \in 1..2 : replicas[2].strokes[i].points # <<>> /\ ~replicas[2].strokes[i].removed
  /\ \E i \in 1..2 : replicas[2].strokes[i].removed

\* C20 as stated: a replica sends a cursor message only in a turn of its own
\* pointer movement; the turn that handles a received cursor event sends
\* nothing (so relayed cursor events die out once the pointers rest)
C20_ReceivedCursorSendsNothing ==
  [][/\ lastOp'.type = "on_cursor" => SentInTurn(lastOp'.conn) = <<>>
     /\ lastOp'.type \in ReplicaTurns =>
          \A k \in 1..Len(SentInTurn(lastOp'.conn)) :
            SentInTurn(lastOp'.conn)[k].type = "cursor" => lastOp'.type = "pointermove"
    ]_vars
====
